---- MODULE Spec2Model ----
\* Model of the notebook cassandra-gcmc-adsorption/mc_gcmc-zeolite.ipynb:
\* one "run all" pass over its code cells, with the working directory, the
\* external simulator's output files and the notebook's global variables as state.
EXTENDS Integers, Sequences, FiniteSets, TLC

VARIABLES
    pc,          \* position of the pass: the cell (and the phase of its loop body) that runs next
    i,           \* 1-based index of the current iteration of the current cell's for loop
    cwd,         \* os.getcwd(), a path below the notebook's directory (a sequence of names)
    prev_cwd,    \* the directory temporary_cd returns to when its block is left
    fs,          \* the directories below the notebook's directory: path -> [prp |-> file or NoFile]
    sim,         \* the behaviour of the external simulator in this execution
    launched,    \* the mc.run calls made in this pass, in order
    returned,    \* the mc.run calls of this pass that have returned or raised, in order
    reads,       \* the genfromtxt calls of this pass, in order, each with the file it parsed
    pressures,   \* notebook global pressures: first the mean pressures, later the targets
    fit,         \* notebook globals slope and intercept
    mus,         \* notebook global mus
    loading,     \* notebook global loading
    synthetic    \* the slope and intercept a synthetic data set was generated from

vars == <<pc, i, cwd, prev_cwd, fs, sim, launched, returned, reads,
          pressures, fit, mus, loading, synthetic>>

-----------------------------------------------------------------------------
\* Bounds of the model.

\* Most rows a simulator output table has after the warm-up prefix.
MaxTail == 2
\* Most points of a synthetic data set.
MaxPoints == 3

-----------------------------------------------------------------------------
\* Numbers. A float is a fraction [n, d] with d > 0; d = 0 marks a non-finite
\* float: nan (n = 0) or -inf (n < 0).

Rat(n, d) == [n |-> n, d |-> d]
NaN == Rat(0, 0)
NegInf == Rat(-1, 0)
IsFinite(r) == r.d > 0
Abs(n) == IF n < 0 THEN -n ELSE n

RECURSIVE GCD(_, _)
GCD(a, b) == IF b = 0 THEN a ELSE GCD(b, a % b)
LCM(a, b) == (a \div GCD(a, b)) * b

\* A finite float in lowest terms.
Reduce(r) == LET g == GCD(Abs(r.n), r.d) IN Rat(r.n \div g, r.d \div g)
\* a == b on floats: nan equals nothing.
REq(a, b) == IF IsFinite(a) /\ IsFinite(b) THEN Reduce(a) = Reduce(b) ELSE FALSE

RECURSIVE SumTo(_, _)
SumTo(s, n) == IF n = 0 THEN 0 ELSE s[n] + SumTo(s, n - 1)
\* The sum of a sequence of integers.
SumSeq(s) == SumTo(s, Len(s))

\* np.arange(start, stop, step) for step > 0: start, start+step, ... below stop.
RECURSIVE arange(_, _, _)
arange(start, stop, step) ==
    IF start >= stop THEN <<>> ELSE <<start>> \o arange(start + step, stop, step)

\* Resolution of the fixed-point logarithm: np.log is computed in tenths.
LnScale == 10
LnPrime == [p \in {2, 3, 5, 7, 11, 13, 17, 19, 23, 29, 31, 37, 41, 43, 47, 53,
                   59, 61, 67, 71, 73, 79, 83, 89, 97, 311, 2243, 2459} |->
    CASE p = 2 -> 7 [] p = 3 -> 11 [] p = 5 -> 16 [] p = 7 -> 19 [] p = 11 -> 24
      [] p = 13 -> 26 [] p = 17 -> 28 [] p = 19 -> 29 [] p = 23 -> 31 [] p = 29 -> 34
      [] p = 31 -> 34 [] p = 37 -> 36 [] p = 41 -> 37 [] p = 43 -> 38 [] p = 47 -> 39
      [] p = 53 -> 40 [] p = 59 -> 41 [] p = 61 -> 41 [] p = 67 -> 42 [] p = 71 -> 43
      [] p = 73 -> 43 [] p = 79 -> 44 [] p = 83 -> 44 [] p = 89 -> 45 [] p = 97 -> 46
      [] p = 311 -> 57 [] p = 2243 -> 77 [] p = 2459 -> 78]

\* ln of a positive integer in units of 1/LnScale, summed over its prime factors.
RECURSIVE LnInt(_)
LnInt(n) ==
    IF n = 1 THEN 0
    ELSE LET ps == {p \in DOMAIN LnPrime : n % p = 0}
             p == CHOOSE q \in ps : \A r \in ps : q <= r
         IN LnPrime[p] + LnInt(n \div p)

\* np.log of one float: nan below zero, -inf at zero.
Log(r) ==
    IF ~IsFinite(r) \/ r.n < 0 THEN NaN
    ELSE IF r.n = 0 THEN NegInf
    ELSE Rat(LnInt(r.n) - LnInt(r.d), LnScale)

\* np.log of an array.
LogAll(a) == [k \in 1..Len(a) |-> Log(a[k])]

-----------------------------------------------------------------------------
\* Arithmetic on floats.

RAdd(a, b) ==
    IF ~IsFinite(a) \/ ~IsFinite(b) THEN NaN
    ELSE LET l == LCM(a.d, b.d)
         IN Reduce(Rat(a.n * (l \div a.d) + b.n * (l \div b.d), l))
RMul(a, b) ==
    IF ~IsFinite(a) \/ ~IsFinite(b) THEN NaN
    ELSE LET x == Reduce(a)
             y == Reduce(b)
             g == GCD(Abs(x.n), y.d)
             h == GCD(Abs(y.n), x.d)
         IN Rat((x.n \div g) * (y.n \div h), (x.d \div h) * (y.d \div g))
\* a / k for an integer k > 0
RDivInt(a, k) == IF ~IsFinite(a) THEN NaN ELSE Rat(a.n, a.d * k)

RECURSIVE CommonDenTo(_, _)
CommonDenTo(a, n) == IF n = 0 THEN 1 ELSE LCM(a[n].d, CommonDenTo(a, n - 1))
\* A common denominator of an array of finite floats.
CommonDen(a) == CommonDenTo(a, Len(a))
\* The numerators of an array of finite floats over the denominator den.
Numerators(a, den) == [k \in 1..Len(a) |-> a[k].n * (den \div a[k].d)]

\* np.mean of a one-dimensional array of floats; nan for an empty array.
mean(a) ==
    IF Len(a) = 0 \/ \E k \in 1..Len(a) : ~IsFinite(a[k]) THEN NaN
    ELSE LET den == CommonDen(a)
         IN Rat(SumSeq(Numerators(a, den)), den * Len(a))

\* Variant for comparison: the slice starts one row early.
RowsFromOneEarly(t, start) ==
    LET n == Cardinality(DOMAIN t)
    IN [k \in 1..(IF n > start - 1 THEN n - start + 1 ELSE 0) |-> t[k + start - 1]]
\* thermo[start:, :] : the rows with 0-based index start and above.
RowsFrom(t, start) ==
    LET n == Cardinality(DOMAIN t)
    IN [k \in 1..(IF n > start THEN n - start ELSE 0) |-> t[k + start]]
\* Variant for comparison: the column is counted from one.
ColumnOneBased(t, col) == [k \in 1..Len(t) |-> t[k][col + 2]]
\* t[:, col] : column col (0-based) of every row.
Column(t, col) == [k \in 1..Len(t) |-> t[k][col + 1]]
\* a / k elementwise
DivAll(a, k) == [j \in 1..Len(a) |-> RDivInt(a[j], k)]

\* Variant for comparison: the regression of x on y.
LeastSquaresSwapped(x, y) ==
    LET n == Len(x)
        dx == CommonDen(x)
        dy == CommonDen(y)
        X == Numerators(x, dx)
        Y == Numerators(y, dy)
        sX == SumSeq(X)
        sY == SumSeq(Y)
        sYY == SumSeq([k \in 1..n |-> Y[k] * Y[k]])
        sXY == SumSeq([k \in 1..n |-> X[k] * Y[k]])
        SYY == n * sYY - sY * sY
        SXY == n * sXY - sX * sY
    IN IF SYY = 0 THEN [slope |-> NaN, intercept |-> NaN]
       ELSE [slope |-> Reduce(Rat(n * SXY * dy, n * SYY * dx)),
             intercept |-> Reduce(Rat(sX * SYY - SXY * sY, n * SYY * dx))]

\* scipy.stats.linregress(x, y) on finite input with distinct x values: the
\* least-squares slope and intercept, over one denominator.
LeastSquares(x, y) ==
    LET n == Len(x)
        dx == CommonDen(x)
        dy == CommonDen(y)
        X == Numerators(x, dx)
        Y == Numerators(y, dy)
        sX == SumSeq(X)
        sY == SumSeq(Y)
        sXX == SumSeq([k \in 1..n |-> X[k] * X[k]])
        sXY == SumSeq([k \in 1..n |-> X[k] * Y[k]])
        SXX == n * sXX - sX * sX
        SXY == n * sXY - sX * sY
    IN [slope |-> Reduce(Rat(n * SXY * dx, n * SXX * dy)),
        intercept |-> Reduce(Rat(sY * SXX - SXY * sX, n * SXX * dy))]

AllFinite(a) == \A k \in 1..Len(a) : IsFinite(a[k])
\* All x values identical: the regression is undefined.
Degenerate(x) == \A k \in 1..Len(x) : REq(x[k], x[1])
NanFit == [slope |-> NaN, intercept |-> NaN]

\* scipy.stats.linregress(x, y) when it returns: nan for input that is not
\* finite or has no two distinct x values.
linregress(x, y) ==
    IF ~AllFinite(x) \/ ~AllFinite(y) \/ Degenerate(x) THEN NanFit ELSE LeastSquares(x, y)

\* pressure.in_units(u.bar) of a pressure in Pa
in_units_bar(pa) == RDivInt(pa, 100000)
\* Variant for comparison: the logarithm is taken of the pressure in Pa.
MuForPa(f, pa) == RAdd(RMul(f.slope, Log(pa)), f.intercept)
\* slope * np.log(pressure.in_units(u.bar)) + intercept
MuFor(f, pa) == RAdd(RMul(f.slope, Log(in_units_bar(pa))), f.intercept)

-----------------------------------------------------------------------------
\* Names of the run directories.

DigitChar == <<"0", "1", "2", "3", "4", "5", "6", "7", "8", "9">>

RECURSIVE Digits(_)
Digits(n) == IF n < 10 THEN <<DigitChar[n + 1]>>
             ELSE Digits(n \div 10) \o <<DigitChar[(n % 10) + 1]>>

\* format(r, '.0f'): round to the nearest integer, ties to even, then print.
Format0f(r) ==
    LET a == Abs(r.n)
        q == a \div r.d
        rem2 == 2 * (a % r.d)
        up == rem2 > r.d \/ (rem2 = r.d /\ q % 2 = 1)
        m == IF up THEN q + 1 ELSE q
    IN (IF r.n < 0 THEN <<"-">> ELSE <<>>) \o Digits(m)

PurePrefix == <<"p", "u", "r", "e", "_", "m", "u", "_">>
ZeoPrefix == <<"z", "e", "o", "_", "p", "r", "e", "s", "s", "_">>

\* 'pure_mu_{:.0f}'.format(mu_adsorbate)
PureDirname(mu_adsorbate) == PurePrefix \o Format0f(Rat(mu_adsorbate, 1))
\* Variant for comparison: the directory is named after the pressure in bar.
ZeoDirnameBar(pressure) == ZeoPrefix \o Format0f(in_units_bar(pressure))
\* f"zeo_press_{pressure.value:0.0f}"
ZeoDirname(pressure) == ZeoPrefix \o Format0f(pressure)

-----------------------------------------------------------------------------
\* Program constants.

temperature == 308
prop_freq == 10
run_length == 100000
step_col == 1
pressure_col == 6
nmol_col == 9
n_unitcells == 12
\* 0-based index of the first row that is averaged: thermo[3000:, ...]
WarmupRows == 3000

\* mus_adsorbate = np.arange(-46, -25, 3)
mus_adsorbate == arange(-46, -25, 3)
\* pressures = [6000, ..., 6000000] * u.Pa
TargetPressures ==
    LET pa == <<6000, 22100, 49180, 121800, 316800, 839700, 2243000, 6000000>>
    IN [k \in 1..Len(pa) |-> Rat(pa[k], 1)]

-----------------------------------------------------------------------------
\* The external simulator. Its output is not fixed by the notebook: one
\* execution's simulator is a record drawn from Simulators.
\*   rowZero  whether a row is written for step 0, before the first move
\*   tail     number of rows written after the warm-up prefix
\*   level, shape   the samples of run k of a sweep: level, plus nothing
\*                  ("flat"), k ("rising") or the distance of k from 4 ("vee")

Simulators == [rowZero : BOOLEAN, tail : 1..MaxTail, level : {-1, 0, 1},
               shape : {"flat", "rising", "vee"}]

\* Lines of a .prp file that start with '#'.
HeaderLines == 3
NoFile == [kind |-> "none"]
EmptyDir == [prp |-> NoFile]

SimBase(s, k) ==
    s.level + (CASE s.shape = "flat" -> 0 [] s.shape = "rising" -> k
                 [] s.shape = "vee" -> Abs(k - 4))
\* Pressure and number of adsorbate molecules in row r (0-based) of run k.
SimPressure(s, k, r) == IF r < WarmupRows THEN SimBase(s, k) + 2 ELSE SimBase(s, k) + (r % 2)
SimNmols(s, k, r) == IF r < WarmupRows THEN 0 ELSE SimBase(s, k) + 1 + (r % 2)
\* MC step of row r: a row every prop_freq steps.
SimStep(s, r) == (IF s.rowZero THEN 0 ELSE prop_freq) + r * prop_freq

\* The file gcmc.out.prp that run k of the sweep `kind` writes.
SimOutput(s, kind, k) == [kind |-> kind, k |-> k, header |-> HeaderLines,
                          nrows |-> WarmupRows + s.tail, sim |-> s]

\* The data row r (0-based) of a file: nine columns, read as floats. The step
\* is column 1, the pressure column 6, the adsorbate count column 9.
Zero == Rat(0, 1)
FileRow(f, r) ==
    <<Rat(SimStep(f.sim, r), 1), Zero, Zero, Zero, Zero,
      Rat(IF f.kind = "pure" THEN SimPressure(f.sim, f.k, r) ELSE 0, 1), Zero, Zero,
      Rat(IF f.kind = "zeo" THEN SimNmols(f.sim, f.k, r) ELSE 0, 1)>>

\* np.genfromtxt(file, skip_header=skip): drop the first skip lines, then the
\* lines that are comments; what is left is the array of data rows.
genfromtxt(f, skip) ==
    LET dropped == IF skip > f.header THEN skip - f.header ELSE 0
    IN [r \in 1..(f.nrows - dropped) |-> FileRow(f, r - 1 + dropped)]

-----------------------------------------------------------------------------
\* The working directory.

isdir(f, wd, dirname) == (wd \o <<dirname>>) \in DOMAIN f
mkdir(f, wd, dirname) ==
    [p \in DOMAIN f \cup {wd \o <<dirname>>} |-> IF p \in DOMAIN f THEN f[p] ELSE EmptyDir]
\* Variant for comparison: an existing directory is removed and made again.
EnsureDirFresh(f, wd, dirname) ==
    [p \in DOMAIN f \cup {wd \o <<dirname>>} |->
        IF p = wd \o <<dirname>> THEN EmptyDir ELSE f[p]]
\* if not os.path.isdir(dirname): os.mkdir(dirname)
EnsureDir(f, wd, dirname) == IF ~isdir(f, wd, dirname) THEN mkdir(f, wd, dirname) ELSE f
\* The simulator writes its output file into the current directory.
WritePrp(f, wd, file) == [f EXCEPT ![wd] = [prp |-> file]]

\* with temporary_cd(dirname): the directory entered, and the one restored on exit.
EnterDir(wd, dirname) == wd \o <<dirname>>
LeaveDir(wd, saved) == saved

-----------------------------------------------------------------------------
\* The notebook pass.

Root == <<>>

NoSynthetic == [slope |-> 0, intercept |-> 0]

\* The notebook's globals before any cell has run.
Init ==
    /\ pc = "calib"
    /\ i = 1
    /\ cwd = Root
    /\ prev_cwd = Root
    /\ fs = [p \in {Root} |-> EmptyDir]
    /\ sim \in Simulators
    /\ launched = <<>>
    /\ returned = <<>>
    /\ reads = <<>>
    /\ pressures = <<>>
    /\ fit = NanFit
    /\ mus = <<>>
    /\ loading = <<>>
    /\ synthetic = NoSynthetic

\* The arguments of one mc.run call and the directory it runs in.
PureRun(k, dir) ==
    [kind |-> "pure", k |-> k, dir |-> dir,
     boxl |-> IF mus_adsorbate[k] < -34 THEN 20 ELSE 5,
     run_length |-> run_length, temperature |-> temperature, prop_freq |-> prop_freq,
     chemical_potential |-> Rat(mus_adsorbate[k], 1)]
ZeoRun(k, dir) ==
    [kind |-> "zeo", k |-> k, dir |-> dir, boxl |-> 0,
     run_length |-> run_length, temperature |-> temperature, prop_freq |-> prop_freq,
     chemical_potential |-> mus[k]]

\* Calibration cell, one iteration up to the call of mc.run: name the
\* directory, create it if it is missing, enter it, start the simulation.
CalibLaunch ==
    /\ pc = "calib"
    /\ i <= Len(mus_adsorbate)
    /\ LET dirname == PureDirname(mus_adsorbate[i])
           dir == EnterDir(cwd, dirname)
       IN /\ fs' = EnsureDir(fs, cwd, dirname)
          /\ prev_cwd' = cwd
          /\ cwd' = dir
          /\ launched' = Append(launched, PureRun(i, dir))
    /\ pc' = "calibRun"
    /\ UNCHANGED <<i, sim, returned, reads, pressures, fit, mus, loading, synthetic>>

\* mc.run returns: the simulator has written gcmc.out.prp into the current
\* directory; temporary_cd restores the directory; the loop goes on.
CalibReturn ==
    /\ pc = "calibRun"
    /\ fs' = WritePrp(fs, cwd, SimOutput(sim, "pure", i))
    /\ returned' = Append(returned, [kind |-> "pure", k |-> i, raised |-> FALSE])
    /\ cwd' = LeaveDir(cwd, prev_cwd)
    /\ IF i < Len(mus_adsorbate)
         THEN pc' = "calib" /\ i' = i + 1
         ELSE pc' = "analyze" /\ i' = 1
    /\ UNCHANGED <<prev_cwd, sim, launched, reads, pressures, fit, mus, loading, synthetic>>

\* Variant for comparison: a run that raises is launched again.
CalibRaiseRetry ==
    /\ pc = "calibRun"
    /\ Len(launched) < 2 * Len(mus_adsorbate)
    /\ returned' = Append(returned, [kind |-> "pure", k |-> i, raised |-> TRUE])
    /\ cwd' = LeaveDir(cwd, prev_cwd)
    /\ pc' = "calib"
    /\ UNCHANGED <<i, prev_cwd, fs, sim, launched, reads, pressures, fit, mus, loading, synthetic>>

\* mc.run raises: temporary_cd restores the directory and the exception ends the pass.
CalibRaise ==
    /\ pc = "calibRun"
    /\ returned' = Append(returned, [kind |-> "pure", k |-> i, raised |-> TRUE])
    /\ cwd' = LeaveDir(cwd, prev_cwd)
    /\ pc' = "error"
    /\ UNCHANGED <<i, prev_cwd, fs, sim, launched, reads, pressures, fit, mus, loading, synthetic>>

\* Analysis cell, one iteration: parse the run's table and append the mean
\* of its pressure column from row 3000 on. The first iteration starts from
\* pressures = [].
AnalyzeRow ==
    /\ pc = "analyze"
    /\ LET dirname == PureDirname(mus_adsorbate[i])
           path == cwd \o <<dirname>>
       IN /\ path \in DOMAIN fs
          /\ fs[path].prp # NoFile
          /\ LET thermo == genfromtxt(fs[path].prp, 3)
             IN pressures' = Append(IF i = 1 THEN <<>> ELSE pressures,
                    mean(Column(RowsFrom(thermo, WarmupRows), pressure_col - 1)))
          /\ reads' = Append(reads, [kind |-> "pure", k |-> i, path |-> path,
                                     file |-> fs[path].prp, skip_header |-> 3])
    /\ IF i < Len(mus_adsorbate)
         THEN pc' = "analyze" /\ i' = i + 1
         ELSE pc' = "fit" /\ i' = 1
    /\ UNCHANGED <<cwd, prev_cwd, fs, sim, launched, returned, fit, mus, loading, synthetic>>

\* Fit cell: linregress(np.log(pressures), y=mus_adsorbate) returns.
Fit ==
    /\ pc = "fit"
    /\ fit' = linregress(LogAll(pressures), [k \in 1..Len(mus_adsorbate) |-> Rat(mus_adsorbate[k], 1)])
    /\ pc' = "targets"
    /\ UNCHANGED <<i, cwd, prev_cwd, fs, sim, launched, returned, reads, pressures, mus, loading, synthetic>>

\* Fit cell: with all x values identical, the scipy releases that test for
\* it raise ValueError instead of returning nan.
FitRaise ==
    /\ pc = "fit"
    /\ AllFinite(LogAll(pressures))
    /\ Degenerate(LogAll(pressures))
    /\ pc' = "error"
    /\ UNCHANGED <<i, cwd, prev_cwd, fs, sim, launched, returned, reads, pressures, fit, mus, loading, synthetic>>

\* Target cell: pressures is rebound to the target pressures, and mus is
\* computed from the fit.
Targets ==
    /\ pc = "targets"
    /\ pressures' = TargetPressures
    /\ mus' = [k \in 1..Len(TargetPressures) |-> MuFor(fit, TargetPressures[k])]
    /\ pc' = "prod"
    /\ i' = 1
    /\ UNCHANGED <<cwd, prev_cwd, fs, sim, launched, returned, reads, fit, loading, synthetic>>

Min(a, b) == IF a < b THEN a ELSE b

\* Production cell, one iteration of the loop over zip(pressures, mus) up to
\* the call of mc.run.
ProdLaunch ==
    /\ pc = "prod"
    /\ i <= Min(Len(pressures), Len(mus))
    /\ LET dirname == ZeoDirname(pressures[i])
           dir == EnterDir(cwd, dirname)
       IN /\ fs' = EnsureDir(fs, cwd, dirname)
          /\ prev_cwd' = cwd
          /\ cwd' = dir
          /\ launched' = Append(launched, ZeoRun(i, dir))
    /\ pc' = "prodRun"
    /\ UNCHANGED <<i, sim, returned, reads, pressures, fit, mus, loading, synthetic>>

ProdReturn ==
    /\ pc = "prodRun"
    /\ fs' = WritePrp(fs, cwd, SimOutput(sim, "zeo", i))
    /\ returned' = Append(returned, [kind |-> "zeo", k |-> i, raised |-> FALSE])
    /\ cwd' = LeaveDir(cwd, prev_cwd)
    /\ IF i < Min(Len(pressures), Len(mus))
         THEN pc' = "prod" /\ i' = i + 1
         ELSE pc' = "extract" /\ i' = 1
    /\ UNCHANGED <<prev_cwd, sim, launched, reads, pressures, fit, mus, loading, synthetic>>

ProdRaise ==
    /\ pc = "prodRun"
    /\ returned' = Append(returned, [kind |-> "zeo", k |-> i, raised |-> TRUE])
    /\ cwd' = LeaveDir(cwd, prev_cwd)
    /\ pc' = "error"
    /\ UNCHANGED <<i, prev_cwd, fs, sim, launched, reads, pressures, fit, mus, loading, synthetic>>

\* Extraction cell, one iteration: parse the run's table and append the mean
\* loading per unit cell from row 3000 on. The first iteration starts from
\* loading = [].
ExtractRow ==
    /\ pc = "extract"
    /\ LET dirname == ZeoDirname(pressures[i])
           path == cwd \o <<dirname>>
       IN /\ path \in DOMAIN fs
          /\ fs[path].prp # NoFile
          /\ LET thermo == genfromtxt(fs[path].prp, 2)
             IN loading' = Append(IF i = 1 THEN <<>> ELSE loading,
                    mean(DivAll(Column(RowsFrom(thermo, WarmupRows), nmol_col - 1),
                                n_unitcells)))
          /\ reads' = Append(reads, [kind |-> "zeo", k |-> i, path |-> path,
                                     file |-> fs[path].prp, skip_header |-> 2])
    /\ IF i < Len(pressures)
         THEN pc' = "extract" /\ i' = i + 1
         ELSE pc' = "done" /\ i' = 1
    /\ UNCHANGED <<cwd, prev_cwd, fs, sim, launched, returned, pressures, fit, mus, synthetic>>

\* A further pass: the kernel is restarted and every cell is run again in the
\* same working directory, with the same simulator.
Restart ==
    /\ pc = "done"
    /\ pc' = "calib"
    /\ i' = 1
    /\ launched' = <<>>
    /\ returned' = <<>>
    /\ reads' = <<>>
    /\ pressures' = <<>>
    /\ fit' = NanFit
    /\ mus' = <<>>
    /\ loading' = <<>>
    /\ UNCHANGED <<cwd, prev_cwd, fs, sim, synthetic>>

Next ==
    \/ CalibLaunch
    \/ CalibReturn
    \/ CalibRaise
    \/ AnalyzeRow
    \/ Fit
    \/ FitRaise
    \/ Targets
    \/ ProdLaunch
    \/ ProdReturn
    \/ ProdRaise
    \/ ExtractRow
    \/ Restart

Spec == Init /\ [][Next]_vars

-----------------------------------------------------------------------------
\* The fit on synthetic data: mu is generated exactly on a line over ln(P),
\* then fitted as the fit cell fits it.

SynPressures == {Rat(1, 1), Rat(2, 1), Rat(3, 1), Rat(5, 1)}
SynSlopes == {-2, 1, 3}
SynIntercepts == {-30, 0}

InitFit ==
    /\ pc = "synthetic"
    /\ i = 1
    /\ cwd = Root
    /\ prev_cwd = Root
    /\ fs = [p \in {Root} |-> EmptyDir]
    /\ sim = [rowZero |-> FALSE, tail |-> 1, level |-> 1, shape |-> "rising"]
    /\ launched = <<>>
    /\ returned = <<>>
    /\ reads = <<>>
    /\ pressures \in UNION {[1..n -> SynPressures] : n \in 2..MaxPoints}
    /\ fit = NanFit
    /\ mus = <<>>
    /\ loading = <<>>
    /\ synthetic \in [slope : SynSlopes, intercept : SynIntercepts]

\* mu_i = slope * ln(P_i) + intercept
SynthGenerate ==
    /\ pc = "synthetic"
    /\ mus' = [k \in 1..Len(pressures) |->
                 RAdd(RMul(Rat(synthetic.slope, 1), Log(pressures[k])),
                      Rat(synthetic.intercept, 1))]
    /\ pc' = "generated"
    /\ UNCHANGED <<i, cwd, prev_cwd, fs, sim, launched, returned, reads, pressures, fit,
                   loading, synthetic>>

\* linregress(np.log(pressures), y=mus) returns.
SynthFit ==
    /\ pc = "generated"
    /\ fit' = linregress(LogAll(pressures), mus)
    /\ pc' = "fitted"
    /\ UNCHANGED <<i, cwd, prev_cwd, fs, sim, launched, returned, reads, pressures, mus,
                   loading, synthetic>>

\* linregress raises ValueError: all x values are identical.
SynthFitRaise ==
    /\ pc = "generated"
    /\ Degenerate(LogAll(pressures))
    /\ pc' = "error"
    /\ UNCHANGED <<i, cwd, prev_cwd, fs, sim, launched, returned, reads, pressures, fit, mus,
                   loading, synthetic>>

NextFit ==
    \/ SynthGenerate
    \/ SynthFit
    \/ SynthFitRaise

SpecFit == InitFit /\ [][NextFit]_vars

-----------------------------------------------------------------------------
\* Properties.

\* The sum of column col (1-based) of table t over the rows with 0-based index in idx.
RECURSIVE SumCells(_, _, _)
SumCells(t, idx, col) ==
    IF idx = {} THEN 0
    ELSE LET r == CHOOSE x \in idx : TRUE
         IN t[r + 1][col].n + SumCells(t, idx \ {r}, col)

\* The table parsed by the last genfromtxt call.
LastRead == reads[Len(reads)]
LastTable == genfromtxt(LastRead.file, LastRead.skip_header)

\* C1: the directory step before a run does nothing when the run's directory
\* exists (no error, the directory and everything in it unchanged), creates it
\* (empty) when it is absent, and in both cases the directory exists afterwards.
C1_DirectoryStepIdempotent ==
    [][(pc \in {"calib", "prod"} /\ pc' # pc) =>
         /\ pc' \in {"calibRun", "prodRun"}
         /\ cwd' = cwd \o <<IF pc = "calib" THEN PureDirname(mus_adsorbate[i])
                                            ELSE ZeoDirname(pressures[i])>>
         /\ cwd' \in DOMAIN fs'
         /\ cwd' \in DOMAIN fs => fs' = fs
         /\ cwd' \notin DOMAIN fs =>
              /\ DOMAIN fs' = DOMAIN fs \cup {cwd'}
              /\ fs'[cwd'] = EmptyDir
              /\ \A p \in DOMAIN fs : fs'[p] = fs[p]]_vars

\* C1 witness: a run was launched in a directory that an earlier pass had
\* left behind, with its output file still in it.
C1_Witness == pc = "calibRun" /\ cwd \in DOMAIN fs /\ fs[cwd].prp # NoFile

\* C2: the value appended by an averaging step is the arithmetic mean of
\* exactly the rows with index 3000 and above of the table it parsed: of the
\* pressure column in the calibration analysis, of the adsorbate count
\* divided by 12 in the production analysis.
C2_MeanOfRowsFrom3000 ==
    (reads # <<>> /\ pc \in {"analyze", "fit", "extract", "done"}) =>
        LET t == LastTable
            idx == {r \in 0..(Len(t) - 1) : r >= 3000}
        IN /\ (LastRead.kind = "pure" /\ pc \in {"analyze", "fit"}) =>
                /\ Len(pressures) = Len(reads)
                /\ REq(pressures[Len(pressures)], Rat(SumCells(t, idx, 6), Cardinality(idx)))
           /\ (LastRead.kind = "zeo" /\ pc \in {"extract", "done"}) =>
                /\ Len(loading) + Len(mus_adsorbate) = Len(reads)
                /\ REq(loading[Len(loading)], Rat(SumCells(t, idx, 9), 12 * Cardinality(idx)))

\* C2 witness: both analyses have averaged all their runs, over tables whose
\* warm-up rows differ from the rows after them.
C2_Witness ==
    /\ pc = "done"
    /\ Len(loading) = Len(TargetPressures)
    /\ sim.tail > 1
    /\ LastTable[1][9] # LastTable[3001][9]

\* C3: on data generated exactly as mu_i = slope * ln(P_i) + intercept over
\* pressures that are not all equal, the fit returns that slope and intercept.
C3_FitRecoversLine ==
    (pc = "fitted" /\ \E a, b \in 1..Len(pressures) : pressures[a] # pressures[b]) =>
        /\ REq(fit.slope, Rat(synthetic.slope, 1))
        /\ REq(fit.intercept, Rat(synthetic.intercept, 1))

\* C3 witness: a fit of three points, two of them at the same pressure.
C3_Witness ==
    /\ pc = "fitted"
    /\ Len(pressures) = 3
    /\ pressures[1] = pressures[2]
    /\ pressures[1] # pressures[3]
    /\ synthetic.slope = 3
    /\ synthetic.intercept = -30

\* The pressures P among the targets that solve slope * ln(P in bar) + intercept = mu.
SolveForPressure(f, mu) ==
    {k \in 1..Len(TargetPressures) :
        LET lnP == Rat(LnInt(TargetPressures[k].n) - LnInt(100000 * TargetPressures[k].d), 10)
        IN /\ IsFinite(f.slope) /\ IsFinite(f.intercept) /\ IsFinite(mu)
           /\ REq(RAdd(RMul(f.slope, lnP), f.intercept), mu)}

\* C4 as stated: for every fitted slope and intercept and every target, the
\* chemical potential computed for the target solves back to that target alone.
C4_RoundTripAlways ==
    pc \in {"prod", "prodRun", "extract", "done"} =>
        \A k \in 1..Len(pressures) : SolveForPressure(fit, mus[k]) = {k}

\* C4 amended: the round trip returns the original target whenever the fitted
\* slope is finite and not zero.
C4_RoundTripNonzeroSlope ==
    (pc \in {"prod", "prodRun", "extract", "done"} /\ IsFinite(fit.slope) /\ fit.slope.n # 0) =>
        /\ Len(mus) = Len(pressures)
        /\ \A k \in 1..Len(pressures) : SolveForPressure(fit, mus[k]) = {k}

\* C4 witness: the chemical potentials of the eight targets were computed
\* from a fit with a finite slope that is not zero.
C4_Witness ==
    /\ pc = "prod"
    /\ Len(mus) = 8
    /\ IsFinite(fit.slope)
    /\ fit.slope.n # 0

\* The pressure samples that run k of the calibration sweep writes after the warm-up.
TailPressures(k) == {SimPressure(sim, k, r) : r \in 3000..(3000 + sim.tail - 1)}

\* C5 as stated: whenever the fit step is reached, there are at least two
\* distinct mu values and every mean pressure is strictly positive.
C5_FitInputAlwaysValid ==
    pc = "fit" =>
        /\ Cardinality({mus_adsorbate[k] : k \in 1..Len(mus_adsorbate)}) >= 2
        /\ \A k \in 1..Len(pressures) : IsFinite(pressures[k]) /\ pressures[k].n > 0

\* C5 amended: whenever the fit step is reached, there are at least two
\* distinct mu values and one mean pressure for each mu, and the mean
\* pressure of a run is strictly positive if all its samples after the
\* warm-up are.
C5_FitInputValidIfSamplesPositive ==
    pc = "fit" =>
        /\ Cardinality({mus_adsorbate[k] : k \in 1..Len(mus_adsorbate)}) >= 2
        /\ Len(pressures) = Len(mus_adsorbate)
        /\ \A k \in 1..Len(pressures) :
             (\A v \in TailPressures(k) : v > 0) => (IsFinite(pressures[k]) /\ pressures[k].n > 0)

\* C5 witness: the fit step is reached with seven strictly positive mean pressures.
C5_Witness ==
    /\ pc = "fit"
    /\ Len(pressures) = 7
    /\ \A k \in 1..Len(pressures) : pressures[k].n > 0

\* The runs of one pass in loop order: the calibration sweep, then the production sweep.
LoopOrder(n) ==
    [j \in 1..n |-> IF j <= Len(mus_adsorbate) THEN <<"pure", j>>
                    ELSE <<"zeo", j - Len(mus_adsorbate)>>]

\* C6: within a pass each run is launched at most once, in loop order; a run
\* is launched only after the run before it has returned; a run that raised
\* is not launched again and no run is launched after it.
C6_SequentialNoRetry ==
    /\ \A a, b \in 1..Len(launched) :
         a # b => <<launched[a].kind, launched[a].k>> # <<launched[b].kind, launched[b].k>>
    /\ [j \in 1..Len(launched) |-> <<launched[j].kind, launched[j].k>>] = LoopOrder(Len(launched))
    /\ Len(returned) <= Len(launched)
    /\ Len(launched) <= Len(returned) + 1
    /\ \A j \in 1..Len(returned) :
         /\ <<returned[j].kind, returned[j].k>> = <<launched[j].kind, launched[j].k>>
         /\ returned[j].raised => j = Len(launched)
    /\ Len(launched) = Len(returned) + 1 <=> pc \in {"calibRun", "prodRun"}

\* C6 witness: the third run of a pass raised, after two runs that returned.
C6_Witness ==
    /\ pc = "error"
    /\ Len(launched) = 3
    /\ Len(returned) = 3
    /\ returned[3].raised

\* C7 as stated: the calibration loop launches one run for each of -46, -43,
\* ..., -25, in increasing order.
C7_SweepUpToMinus25 ==
    pc \in {"analyze", "fit", "targets", "prod", "prodRun", "extract", "done"} =>
        LET pure == SelectSeq(launched, LAMBDA l : l.kind = "pure")
        IN [j \in 1..Len(pure) |-> pure[j].chemical_potential.n] =
               <<-46, -43, -40, -37, -34, -31, -28, -25>>

\* C8 as stated: row 3000 of the calibration table is the sample of step
\* 30000, and a sample is averaged exactly if its step is 30000 or more.
C8_AverageStartsAtStep30000 ==
    (reads # <<>> /\ LastRead.kind = "pure") =>
        LET t == LastTable
            averaged == {r + 3000 : r \in 0..(Len(RowsFrom(t, WarmupRows)) - 1)}
        IN /\ t[3001][1].n = 30000
           /\ \A r \in 3000 - 2 .. Len(t) - 1 : r \in averaged <=> t[r + 1][1].n >= 30000

\* C9: no two runs of a pass share a directory: the names of distinct mu
\* values differ, the names of distinct targets differ, no calibration name
\* is a production name, and every analysis step reads the file of the run
\* for the same mu (or pressure) from the directory that run wrote into.
C9_DirectoriesDistinctAndMatched ==
    /\ \A a, b \in 1..Len(mus_adsorbate) :
         mus_adsorbate[a] # mus_adsorbate[b] =>
            PureDirname(mus_adsorbate[a]) # PureDirname(mus_adsorbate[b])
    /\ \A a, b \in 1..Len(TargetPressures) :
         ~REq(TargetPressures[a], TargetPressures[b]) =>
            ZeoDirname(TargetPressures[a]) # ZeoDirname(TargetPressures[b])
    /\ \A a \in 1..Len(mus_adsorbate), b \in 1..Len(TargetPressures) :
         PureDirname(mus_adsorbate[a]) # ZeoDirname(TargetPressures[b])
    /\ \A a, b \in 1..Len(launched) : a # b => launched[a].dir # launched[b].dir
    /\ \A j \in 1..Len(reads) :
         /\ reads[j].file.kind = reads[j].kind
         /\ reads[j].file.k = reads[j].k
         /\ \E a \in 1..Len(launched) :
              /\ launched[a].kind = reads[j].kind
              /\ launched[a].k = reads[j].k
              /\ launched[a].dir = reads[j].path

\* C9 witness: a pass has launched its fifteen runs and read their fifteen files.
C9_Witness == pc = "done" /\ Len(launched) = 15 /\ Len(reads) = 15

====
